---- MODULE Spec2Model ----
(***************************************************************************)
(* Model of the PawsClient run loop (src/paws.js and src/paws-proxy.js):   *)
(* the request executor makeRequest, the session step of main, the quest   *)
(* engine (processQuests, processChristmasQuests) and the token store.     *)
(*                                                                         *)
(* The program is a single thread of control that is suspended only at     *)
(* its awaits.  An axios call is modelled in two steps: the environment    *)
(* settles the promise (AxiosResolve / AxiosReject), then the program's    *)
(* continuation runs up to its next await.                                 *)
(***************************************************************************)
EXTENDS Integers, Sequences, FiniteSets, TLC

(***************************************************************************)
(* Bounds of the model.                                                    *)
(***************************************************************************)
MaxAccounts == 2
MaxNow == 10

(***************************************************************************)
(* Program constants.                                                      *)
(***************************************************************************)
maxRetries == 3
retryDelay == 5000
questDelay == 2000
christmasDelay == 3000
accountDelay == 1000
countdownSeconds == 1440 * 60
christmasSuffixMax == 6
christmasPrefixLen == 9

Variants == {"plain", "proxy"}

(***************************************************************************)
(* Tokens.  A token is the result of token.split('.'): a sequence of       *)
(* segments.  The empty sequence stands for `undefined` (no stored token). *)
(***************************************************************************)
NoToken == <<>>

TokNoDot  == <<"abc">>
TokExp3   == <<"h", "eyJleHAiOjN9", "s">>
TokExp4   == <<"h", "eyJleHAiOjR9", "s">>
TokExp9   == <<"h", "eyJleHAiOjl9", "s">>
TokExp0   == <<"h", "eyJleHAiOjB9", "s">>
TokPerp   == <<"h", "eyJzdWIiOjF9", "s">>
TokNull   == <<"h", "bnVsbA==", "s">>
TokNum    == <<"h", "MTIz", "s">>
TokBad    == <<"h", "bm90IGpzb24=", "s">>
TokEmpty  == <<"h", "", "s">>
TokStar   == <<"h", "****", "s">>
TokExpNeg == <<"h", "eyJleHAiOi0xfQ==", "s">>
TokObj    == <<"h", "e30=", "s">>
TokDirty  == <<"h", "eyJzdWIi!OjF9", "s">>

(***************************************************************************)
(* Buffer.from(payload, 'base64').toString() on the payloads above.        *)
(* Characters outside the base64 alphabet are skipped, never rejected.     *)
(***************************************************************************)
Base64Decode(payload) ==
    CASE payload = "eyJleHAiOjN9" -> "{\"exp\":3}"
      [] payload = "eyJleHAiOjR9" -> "{\"exp\":4}"
      [] payload = "eyJleHAiOjl9" -> "{\"exp\":9}"
      [] payload = "eyJleHAiOjB9" -> "{\"exp\":0}"
      [] payload = "eyJzdWIiOjF9" -> "{\"sub\":1}"
      [] payload = "eyJleHAiOi0xfQ==" -> "{\"exp\":-1}"
      [] payload = "e30="          -> "{}"
      [] payload = "eyJzdWIi!OjF9" -> "{\"sub\":1}"
      [] payload = "bnVsbA=="     -> "null"
      [] payload = "MTIz"         -> "123"
      [] payload = "bm90IGpzb24=" -> "not json"
      [] OTHER                    -> ""

(***************************************************************************)
(* JSON.parse on the decoded texts: kind "error" is a SyntaxError.         *)
(***************************************************************************)
JsonParse(text) ==
    CASE text = "{\"exp\":3}" -> [kind |-> "object", hasExp |-> TRUE,  exp |-> 3]
      [] text = "{\"exp\":4}" -> [kind |-> "object", hasExp |-> TRUE,  exp |-> 4]
      [] text = "{\"exp\":9}" -> [kind |-> "object", hasExp |-> TRUE,  exp |-> 9]
      [] text = "{\"exp\":0}" -> [kind |-> "object", hasExp |-> TRUE,  exp |-> 0]
      [] text = "{\"sub\":1}" -> [kind |-> "object", hasExp |-> FALSE, exp |-> 0]
      [] text = "{\"exp\":-1}" -> [kind |-> "object", hasExp |-> TRUE, exp |-> -1]
      [] text = "{}"          -> [kind |-> "object", hasExp |-> FALSE, exp |-> 0]
      [] text = "null"        -> [kind |-> "null",   hasExp |-> FALSE, exp |-> 0]
      [] text = "123"         -> [kind |-> "number", hasExp |-> FALSE, exp |-> 0]
      [] OTHER                -> [kind |-> "error",  hasExp |-> FALSE, exp |-> 0]

(* an isExpired whose decode step is inside the try block: a token without *)
(* a middle segment is reported as expired                                 *)
isExpiredDecodeInTry(token, now) ==
    IF Len(token) < 2
    THEN "true"
    ELSE LET parsedPayload == JsonParse(Base64Decode(token[2]))
         IN  CASE parsedPayload.kind = "error" -> "true"
               [] parsedPayload.kind = "null"  -> "true"
               [] parsedPayload.hasExp /\ parsedPayload.exp # 0 ->
                      IF now > parsedPayload.exp THEN "true" ELSE "false"
               [] OTHER -> "false"

(* an isExpired that reports every token without a readable exp as expired *)
isExpiredNoPerpetual(token, now) ==
    IF Len(token) < 2
    THEN "throw"
    ELSE LET parsedPayload == JsonParse(Base64Decode(token[2]))
         IN  IF parsedPayload.kind = "object" /\ parsedPayload.hasExp
                  /\ now <= parsedPayload.exp
             THEN "false"
             ELSE "true"

(***************************************************************************)
(* isExpired(token): "throw" when the decode step outside the try block    *)
(* raises (payload undefined), otherwise the boolean returned.             *)
(***************************************************************************)
isExpired(token, now) ==
    IF Len(token) < 2
    THEN "throw"
    ELSE LET parsedPayload == JsonParse(Base64Decode(token[2]))
         IN  CASE parsedPayload.kind = "error" -> "true"
               [] parsedPayload.kind = "null"  -> "true"
               [] parsedPayload.hasExp /\ parsedPayload.exp # 0 ->
                      IF now > parsedPayload.exp THEN "true" ELSE "false"
               [] OTHER -> "false"


(***************************************************************************)
(* Quests.  A quest code is a sequence of characters, so that startsWith,  *)
(* slice and parseInt act on it as they do on the JavaScript string.       *)
(***************************************************************************)
Christmas == <<"c", "h", "r", "i", "s", "t", "m", "a", "s">>

DigitVal(c) ==
    CASE c = "0" -> 0 [] c = "1" -> 1 [] c = "2" -> 2 [] c = "3" -> 3
      [] c = "4" -> 4 [] c = "5" -> 5 [] c = "6" -> 6 [] c = "7" -> 7
      [] c = "8" -> 8 [] c = "9" -> 9 [] OTHER -> -1

IsDigit(c) == DigitVal(c) >= 0

RECURSIVE DigitsValue(_, _)
DigitsValue(s, acc) ==
    IF s = <<>> \/ ~IsDigit(Head(s))
    THEN acc
    ELSE DigitsValue(Tail(s), 10 * acc + DigitVal(Head(s)))

RECURSIVE SkipSpaces(_)
SkipSpaces(s) ==
    IF s # <<>> /\ Head(s) = " " THEN SkipSpaces(Tail(s)) ELSE s

(* parseInt(s): leading blanks, an optional sign, then the longest run of  *)
(* digits; NaN when no digit follows.                                      *)
ParseInt(s) ==
    LET t    == SkipSpaces(s)
        neg  == t # <<>> /\ Head(t) = "-"
        body == IF t # <<>> /\ Head(t) \in {"-", "+"} THEN Tail(t) ELSE t
    IN  IF body = <<>> \/ ~IsDigit(Head(body))
        THEN [nan |-> TRUE, val |-> 0]
        ELSE [nan |-> FALSE,
              val |-> IF neg THEN 0 - DigitsValue(body, 0) ELSE DigitsValue(body, 0)]

StartsWith(s, prefix) ==
    Len(s) >= Len(prefix) /\ SubSeq(s, 1, Len(prefix)) = prefix

Slice(s, from) == SubSeq(s, from + 1, Len(s))

Quest(code, claimed, status) ==
    [code |-> code, claimed |-> claimed, status |-> status]

(* The quests the service knows, by quest id (the _id field).              *)
Catalog ==
    <<Quest(<<"d", "a", "i", "l", "y">>, FALSE, "active"),
      Quest(<<"b", "o", "o", "s", "t">>, FALSE, "active"),
      Quest(<<"i", "n", "v", "i", "t", "e">>, TRUE, "finished"),
      Quest(Christmas \o <<"1">>, FALSE, "active"),
      Quest(Christmas \o <<"2">>, FALSE, "active"),
      Quest(Christmas \o <<"_", "0", "0", "3">>, FALSE, "active"),
      Quest(Christmas \o <<"7">>, FALSE, "active"),
      Quest(Christmas \o <<"3">>, FALSE, "finished"),
      Quest(Christmas \o <<"4">>, TRUE, "active"),
      Quest(<<"x", "m", "a", "s", "_", "n", "e", "w", "_", "1">>, FALSE, "active"),
      Quest(Christmas \o <<"_", "0", "0", "7">>, FALSE, "active")>>

QuestIds == DOMAIN Catalog

(* getQuestsList: response.data.data.filter(quest => !quest.progress.claimed) *)
Unclaimed(id) == ~Catalog[id].claimed

getQuestsListFilter(ids) == SelectSeq(ids, Unclaimed)

(* getChristmasQuests: the four-part filter.                               *)
ChristmasKeep(id) ==
    LET quest  == Catalog[id]
        suffix == ParseInt(Slice(quest.code, christmasPrefixLen))
    IN  /\ StartsWith(quest.code, Christmas)
        /\ ~suffix.nan /\ suffix.val <= christmasSuffixMax
        /\ ~quest.claimed
        /\ quest.status # "finished"

getChristmasQuestsFilter(ids) == SelectSeq(ids, ChristmasKeep)

(* Quest arrays the service answers with.                                  *)
OrdinaryLists == {<<>>, <<1>>, <<1, 3, 2>>}
SeasonalLists == {<<>>, <<6, 7>>, <<4, 6, 7, 5, 8, 9, 10, 11>>}


(***************************************************************************)
(* State.                                                                  *)
(***************************************************************************)
VARIABLES
    variant,        \* "plain": paws.js, "proxy": paws-proxy.js
    nData,          \* data.length: the number of init-data lines
    wallets,        \* this.wallets
    proxies,        \* this.proxies (proxy variant)
    tokens,         \* this.tokens: user id -> token
    tokenFile,      \* the content of token.json
    diskOk,         \* whether writes to token.json succeed in this run
    now,            \* the clock, in epoch seconds
    pc,             \* where main is suspended
    exitCode,       \* 0 while running, the code given to process.exit
    hoinhiemvu,     \* answer to the first prompt
    lamChristmas,   \* answer to the second prompt
    i,              \* account index of the for loop (from 1)
    userToken,      \* local of the loop body
    needsNewToken,  \* local of the loop body
    sess,           \* how the login (or proxy check) of this loop body ended
    req,            \* config (and proxy) of the makeRequest call in progress
    mr,             \* makeRequest: attempt, axios calls made, time waited
    settled,        \* how the pending axios promise settled
    timer,          \* milliseconds of the pending setTimeout, 0 if none
    out,            \* what the last step logged: balance and error message
    batch           \* the quest batch in progress or just ended

vars == <<variant, nData, wallets, proxies, tokens, tokenFile, diskOk, now, pc, exitCode,
          hoinhiemvu, lamChristmas, i, userToken, needsNewToken, sess, req, mr,
          settled, timer, out, batch>>

UserIds == 1 .. MaxAccounts

(* userData.id of the init-data line k *)
UserIdOf(k) == k

Lines(n) == [k \in 1 .. n |-> k]

Balances == {0, 7}
ServerTokens == {TokExp9, TokExp4}
StoredTokens == <<NoToken, TokExp4, TokExp3, TokPerp, TokNoDot, TokBad>>
Times == 4 .. 5

BearerKinds == {"user", "link", "list", "complete", "claimInner", "claim",
                "xlist", "xcomplete", "xclaim"}
QuestKinds == BearerKinds \ {"user", "link"}

NoReq == [kind |-> "none", acct |-> 0, token |-> NoToken, questId |-> 0,
          wallet |-> 0, proxy |-> 0]
IdleMr == [attempt |-> 0, calls |-> 0, waitMs |-> 0]
NoResp == [threw |-> FALSE, err |-> "", status |-> 0, success |-> FALSE,
           data |-> "none", token |-> NoToken, balance |-> 0, wallet |-> FALSE,
           list |-> <<>>]
NoOut == [balance |-> -1, error |-> "", caught |-> ""]
NoBatch == [path |-> "none", list |-> <<>>, idx |-> 0, qs |-> <<>>,
            exception |-> FALSE, done |-> FALSE]

(* the error of the k-th axios call of a makeRequest call: every call     *)
(* that fails throws an error object of its own                            *)
ErrorAt(k) ==
    CASE k = 1 -> "error of call 1"
      [] k = 2 -> "error of call 2"
      [] k = 3 -> "error of call 3"
      [] OTHER -> "error of a later call"

Rejection(e) == [NoResp EXCEPT !.threw = TRUE, !.err = e]
Response(status, success, data) ==
    [NoResp EXCEPT !.status = status, !.success = success, !.data = data]

(* What the service may answer, by request.  axios rejects every status    *)
(* outside 2xx, so a response that resolves carries a 2xx status.          *)
AuthResponses ==
    {[Response(201, TRUE, "array") EXCEPT !.token = t, !.balance = b, !.wallet = w] :
        t \in ServerTokens, b \in Balances, w \in BOOLEAN}
    \cup {Response(201, FALSE, "none"), [Response(200, TRUE, "array") EXCEPT !.token = TokExp9]}
UserResponses ==
    {[Response(200, TRUE, "object") EXCEPT !.balance = b, !.wallet = w] :
        b \in Balances, w \in BOOLEAN}
    \cup {Response(200, FALSE, "none"), Response(201, TRUE, "object")}
LinkResponses ==
    {Response(201, TRUE, "none"), Response(201, FALSE, "none"), Response(200, TRUE, "none")}
ListResponses ==
    {[Response(200, TRUE, "array") EXCEPT !.list = l] : l \in OrdinaryLists}
    \cup {Response(200, FALSE, "none")}
ChristmasListResponses ==
    {[Response(200, TRUE, "array") EXCEPT !.list = l] : l \in SeasonalLists}
    \cup {Response(200, FALSE, "none")}
CompleteResponses ==
    {Response(200, TRUE, "object"), Response(200, FALSE, "true"),
     Response(201, FALSE, "false"), Response(204, TRUE, "object")}
ClaimResponses ==
    {Response(201, TRUE, "object"), Response(200, FALSE, "none")}

Responses(kind) ==
    CASE kind = "auth" -> AuthResponses
      [] kind = "user" -> UserResponses
      [] kind = "link" -> LinkResponses
      [] kind = "list" -> ListResponses
      [] kind = "xlist" -> ChristmasListResponses
      [] kind \in {"complete", "xcomplete"} -> CompleteResponses
      [] OTHER -> ClaimResponses

(* Token stores found in token.json at startup. *)
InitStores ==
    {[u \in UserIds |-> StoredTokens[((k + u) % Len(StoredTokens)) + 1]] :
        k \in 1 .. Len(StoredTokens)}

Init ==
    /\ variant \in Variants
    /\ nData \in 0 .. MaxAccounts
    /\ wallets \in {Lines(n) : n \in 0 .. MaxAccounts}
    /\ proxies \in IF variant = "proxy"
                   THEN {Lines(n) : n \in 0 .. MaxAccounts}
                   ELSE {<<>>}
    /\ tokenFile \in InitStores
    /\ tokens = tokenFile
    /\ diskOk \in BOOLEAN
    /\ now = 4
    /\ pc = "start"
    /\ exitCode = 0
    /\ hoinhiemvu = FALSE
    /\ lamChristmas = FALSE
    /\ i = 0
    /\ userToken = NoToken
    /\ needsNewToken = FALSE
    /\ sess = "none"
    /\ req = NoReq
    /\ mr = IdleMr
    /\ settled = NoResp
    /\ timer = 0
    /\ out = NoOut
    /\ batch = NoBatch

(***************************************************************************)
(* Building blocks of the steps.                                           *)
(***************************************************************************)
config == <<variant, nData, wallets, proxies, diskOk>>
answers == <<hoinhiemvu, lamChristmas>>
store == <<tokens, tokenFile>>
locals == <<userToken, needsNewToken>>

(* the proxy argument makeRequest is called with: every caller hands on    *)
(* the proxy of the account, but completeQuest calls claimQuest without it *)
ProxyArg(kind) ==
    IF variant = "proxy" /\ kind # "claimInner" THEN proxies[i] ELSE 0

(* makeRequest is entered and axios is called for the first time. *)
Issue(kind, token, questId, wallet) ==
    /\ req' = [kind |-> kind, acct |-> i, token |-> token, questId |-> questId,
               wallet |-> wallet,
               proxy |-> ProxyArg(kind)]
    /\ mr' = [attempt |-> 1, calls |-> 1, waitMs |-> 0]
    /\ settled' = NoResp
    /\ pc' = "axios"
    /\ timer' = 0

(* main is suspended at p with no request in progress. *)
Goto(p, ms) ==
    /\ req' = NoReq
    /\ mr' = IdleMr
    /\ settled' = NoResp
    /\ pc' = p
    /\ timer' = ms

(* a for loop whose index stays where it is *)
NextIndexSame(k) == k

(* i++ *)
NextIndex(k) == k + 1

(* the for loop moves to the next account, or to the countdown. *)
LoopNext ==
    /\ i' = NextIndex(i)
    /\ IF NextIndex(i) <= nData
       THEN Goto("acct", 0)
       ELSE Goto("countdown", (countdownSeconds + 1) * 1000)
    /\ userToken' = NoToken
    /\ needsNewToken' = FALSE

(***************************************************************************)
(* Startup: validateWalletFile and the two prompts.                        *)
(***************************************************************************)
(* a validation that looks at the wallet list only *)
validateWalletFileWalletsOnly == Len(wallets) = nData

validateWalletFile ==
    /\ Len(wallets) = nData
    /\ variant = "proxy" => Len(proxies) = nData

Validate ==
    /\ pc = "start"
    /\ IF validateWalletFile
       THEN Goto("ask1", 0) /\ exitCode' = exitCode
       ELSE Goto("exit", 0) /\ exitCode' = 1
    /\ UNCHANGED <<config, answers, store, locals, now, i, sess, out, batch>>

AskQuest ==
    /\ pc = "ask1"
    /\ hoinhiemvu' \in BOOLEAN
    /\ Goto("ask2", 0)
    /\ UNCHANGED <<config, lamChristmas, store, locals, now, i, sess, out, batch,
                   exitCode>>

AskChristmas ==
    /\ pc = "ask2"
    /\ lamChristmas' \in BOOLEAN
    /\ i' = 1
    /\ IF 1 <= nData
       THEN Goto("acct", 0)
       ELSE Goto("countdown", (countdownSeconds + 1) * 1000)
    /\ UNCHANGED <<config, hoinhiemvu, store, locals, now, sess, out, batch, exitCode>>

(***************************************************************************)
(* The session step of main.                                               *)
(***************************************************************************)
(* a session step that only looks for a missing token *)
NeedsNewTokenAbsentOnly(token, t) ==
    IF token = NoToken THEN "true"
    ELSE IF isExpired(token, t) = "throw" THEN "throw" ELSE "false"

(* a session step that logs in again whatever the stored token *)
NeedsNewTokenAlways(token, t) ==
    IF token = NoToken THEN "true"
    ELSE IF isExpired(token, t) = "throw" THEN "throw" ELSE "true"

(* needsNewToken = !userToken || this.isExpired(userToken) *)
NeedsNewToken(token, t) ==
    IF token = NoToken THEN "true" ELSE isExpired(token, t)

SessionStart ==
    LET token == tokens[UserIdOf(i)]
        needs == NeedsNewToken(token, now)
    IN  /\ batch' = NoBatch
        /\ sess' = "none"
        /\ out' = NoOut
        /\ i' = i
        /\ IF needs = "throw"
           THEN /\ Goto("exit", 0)
                /\ exitCode' = 1
                /\ UNCHANGED locals
           ELSE /\ userToken' = token
                /\ needsNewToken' = (needs = "true")
                /\ exitCode' = exitCode
                /\ IF needs = "true"
                   THEN Issue("auth", NoToken, 0, 0)
                   ELSE Issue("user", token, 0, 0)

BeginAccount ==
    /\ pc = "acct"
    /\ IF variant = "proxy"
       THEN /\ Goto("proxyCheck", 0)
            /\ batch' = NoBatch
            /\ sess' = "none"
            /\ out' = NoOut
            /\ UNCHANGED <<locals, i, exitCode>>
       ELSE SessionStart
    /\ UNCHANGED <<config, answers, store, now>>

(* checkProxyIP resolves with the IP *)
ProxyCheckOk ==
    /\ pc = "proxyCheck"
    /\ SessionStart
    /\ UNCHANGED <<config, answers, store, now>>

(* a proxy check whose catch block logs and goes on with the login of the *)
(* account instead of skipping it                                         *)
ProxyCheckFailFallsThrough ==
    /\ pc = "proxyCheck"
    /\ out' = [NoOut EXCEPT !.error = "proxy"]
    /\ sess' = "proxyFailed"
    /\ i' = i
    /\ userToken' = NoToken
    /\ needsNewToken' = TRUE
    /\ Issue("auth", NoToken, 0, 0)
    /\ UNCHANGED <<config, answers, store, now, batch, exitCode>>

(* checkProxyIP throws: the account is skipped *)
ProxyCheckFail ==
    /\ pc = "proxyCheck"
    /\ out' = [NoOut EXCEPT !.error = "proxy"]
    /\ sess' = "proxyFailed"
    /\ LoopNext
    /\ UNCHANGED <<config, answers, store, now, batch, exitCode>>

(***************************************************************************)
(* makeRequest (lines 43-58; 61-81 in the proxy variant).                  *)
(***************************************************************************)
AxiosResolve ==
    /\ pc = "axios"
    /\ \E r \in Responses(req.kind) : settled' = r
    /\ pc' = "settled"
    /\ out' = NoOut
    /\ UNCHANGED <<config, answers, store, locals, now, i, sess, req, mr, timer,
                   batch, exitCode>>

AxiosReject ==
    /\ pc = "axios"
    /\ settled' = Rejection(ErrorAt(mr.calls))
    /\ pc' = "settled"
    /\ out' = NoOut
    /\ UNCHANGED <<config, answers, store, locals, now, i, sess, req, mr, timer,
                   batch, exitCode>>

(* a makeRequest that gives up one attempt early *)
LastAttemptEarly(attempt) == attempt = maxRetries - 1

(* if (attempt === maxRetries) throw error *)
LastAttempt(attempt) == attempt = maxRetries

(* the error makeRequest throws to its caller *)
Rethrown(error) == error

(* a makeRequest whose retry branch is taken whether or not the attempt threw *)
MakeRequestCatchAlways ==
    /\ pc = "settled"
    /\ ~LastAttempt(mr.attempt)
    /\ pc' = "retryDelay"
    /\ timer' = retryDelay
    /\ settled' = NoResp
    /\ out' = NoOut
    /\ UNCHANGED <<config, answers, store, locals, now, i, sess, req, mr,
                   batch, exitCode>>

(* catch block with attempts left: log, then wait retryDelay *)
MakeRequestCatch ==
    /\ pc = "settled"
    /\ settled.threw
    /\ ~LastAttempt(mr.attempt)
    /\ pc' = "retryDelay"
    /\ timer' = retryDelay
    /\ settled' = NoResp
    /\ out' = NoOut
    /\ UNCHANGED <<config, answers, store, locals, now, i, sess, req, mr,
                   batch, exitCode>>

(* the wait is over: attempt++ and axios is called again *)
MakeRequestRetry ==
    /\ pc = "retryDelay"
    /\ mr' = [attempt |-> mr.attempt + 1, calls |-> mr.calls + 1,
              waitMs |-> mr.waitMs + timer]
    /\ pc' = "axios"
    /\ timer' = 0
    /\ UNCHANGED <<config, answers, store, locals, now, i, sess, req, settled, out,
                   batch, exitCode>>

(* makeRequest has returned a response or thrown to its caller *)
Returned(kind) ==
    /\ pc = "settled"
    /\ req.kind = kind
    /\ settled.threw => LastAttempt(mr.attempt)

(* the error message the caller's catch block sees *)
Caught == IF settled.threw THEN Rethrown(settled.err) ELSE ""

(* what a step that follows a makeRequest call logs *)
Logged == [NoOut EXCEPT !.caught = Caught]


(***************************************************************************)
(* Token store: saveToken (lines 97-105).                                  *)
(***************************************************************************)
(* a saveToken that keys the entry by the token instead of the user id *)
saveTokenMemoryWrongKey(map, userId, token) == map

(* a saveToken that drops the entries of the other users *)
saveTokenMemoryOnlyEntry(map, userId, token) ==
    [u \in DOMAIN map |-> IF u = userId THEN token ELSE NoToken]

(* this.tokens[userId] = token *)
saveTokenMemory(map, userId, token) == [map EXCEPT ![userId] = token]

(* a saveToken that never writes token.json *)
saveTokenFileNever(file, map, writeOk) == file

(* fs.writeFileSync(this.tokenFile, JSON.stringify(this.tokens)): the whole *)
(* mapping is written; a write error is caught and logged.                 *)
saveTokenFile(file, map, writeOk) == IF writeOk THEN map ELSE file

(***************************************************************************)
(* authenticate, getUserInfo, linkWallet and the session branches of main. *)
(***************************************************************************)
(* an authenticate that does not look at the status *)
authenticateSuccessAnyStatus(r) == ~r.threw /\ r.success

(* response.status === 201 && response.data.success *)
authenticateSuccess(r) == ~r.threw /\ r.status = 201 /\ r.success

(* a getUserInfo that does not look at the status *)
getUserInfoSuccessAnyStatus(r) == ~r.threw /\ r.success

(* response.status === 200 && response.data.success *)
getUserInfoSuccess(r) == ~r.threw /\ r.status = 200 /\ r.success

(* response.status === 201 && response.data.success *)
linkWalletSuccess(r) == ~r.threw /\ r.status = 201 /\ r.success

(* a loop body without the `continue` *)
LoginFailedFallsThrough == FALSE

(* `continue` after a failed login (line 507) *)
LoginFailedSkips == TRUE

(* the token the session goes on with after a successful login *)
IssuedToken(r) == r.token

(* the balance main logs from the result *)
ReportedBalance(r) == r.balance

(* a loop body that takes the first wallet for every account *)
WalletOfFirst(k) == wallets[1]

(* const walletAddress = this.wallets[i] *)
WalletOf(k) == wallets[k]

(* authResult.wallet / userInfo.wallet is falsy: link the wallet *)
LinkOrGoOn(r, token) ==
    IF r.wallet
    THEN Goto("afterSession", 0)
    ELSE Issue("link", token, 0, WalletOf(i))

(* a loop body that gives up the account when the link fails *)
AfterLinkSkips == "acctPause"

(* where main goes on after linkWallet has returned, whatever its result *)
AfterLink == "afterSession"

AuthDone ==
    /\ Returned("auth")
    /\ IF authenticateSuccess(settled)
       THEN /\ userToken' = IssuedToken(settled)
            /\ tokens' = saveTokenMemory(tokens, UserIdOf(i), userToken')
            /\ tokenFile' = saveTokenFile(tokenFile, tokens', diskOk)
            /\ out' = [Logged EXCEPT !.balance = ReportedBalance(settled)]
            /\ sess' = "authOk"
            /\ LinkOrGoOn(settled, userToken')
            /\ UNCHANGED <<needsNewToken, i>>
       ELSE /\ out' = [Logged EXCEPT !.error =
                          IF settled.threw THEN Caught ELSE "Authentication failed"]
            /\ sess' = "authFailed"
            /\ IF LoginFailedSkips
               THEN LoopNext
               ELSE Goto("afterSession", 0) /\ UNCHANGED <<locals, i>>
            /\ UNCHANGED store
    /\ UNCHANGED <<config, answers, now, batch, exitCode>>

UserDone ==
    /\ Returned("user")
    /\ IF getUserInfoSuccess(settled)
       THEN /\ out' = [Logged EXCEPT !.balance = ReportedBalance(settled)]
            /\ sess' = sess
            /\ LinkOrGoOn(settled, userToken)
       ELSE /\ out' = [Logged EXCEPT !.error =
                          IF settled.threw THEN Caught ELSE "Failed to get user info"]
            /\ sess' = sess
            /\ Goto("afterSession", 0)
    /\ UNCHANGED <<config, answers, store, locals, now, i, batch, exitCode>>

LinkDone ==
    /\ Returned("link")
    /\ out' = [Logged EXCEPT !.error =
                  IF linkWalletSuccess(settled) THEN ""
                  ELSE IF settled.threw THEN Caught ELSE "Failed to link wallet"]
    /\ Goto(IF linkWalletSuccess(settled) THEN "afterSession" ELSE AfterLink, 0)
    /\ UNCHANGED <<config, answers, store, locals, now, i, sess, batch, exitCode>>

(***************************************************************************)
(* Quest engine, ordinary path: processQuests, completeQuest, claimQuest.  *)
(***************************************************************************)
QuestLog == [compl |-> 0, claim |-> 0, resp |-> NoResp]

NewBatch(path, list) ==
    [path |-> path, list |-> list, idx |-> 0,
     qs |-> [k \in 1 .. Len(list) |-> QuestLog],
     exception |-> FALSE, done |-> FALSE]

(* the for-of loop takes the next quest, or the function returns *)
ForNext(b, kind, after) ==
    LET k == b.idx + 1
    IN  IF k <= Len(b.list)
        THEN /\ batch' = [b EXCEPT !.idx = k, !.qs[k].compl = @ + 1]
             /\ Issue(kind, userToken, b.list[k], 0)
        ELSE /\ batch' = [b EXCEPT !.done = TRUE]
             /\ Goto(after, 0)

(* a quest batch without its try/catch: the exception escapes to main, *)
(* which ends the process                                             *)
AbortEscapes(b, after) ==
    /\ batch' = [b EXCEPT !.exception = TRUE, !.done = TRUE]
    /\ Goto("exit", 0)

(* an exception reaches the catch of the outer try: log and return *)
Abort(b, after) ==
    /\ batch' = [b EXCEPT !.exception = TRUE, !.done = TRUE]
    /\ Goto(after, 0)

(* a claim request for the current quest *)
IssueClaim(b, kind) ==
    /\ batch' = [b EXCEPT !.qs[b.idx].claim = @ + 1]
    /\ Issue(kind, userToken, b.list[b.idx], 0)

(* a loop body that runs the ordinary quests whatever the answer *)
OrdinarySelectedAlways == TRUE

(* if (hoinhiemvu) *)
OrdinarySelected == hoinhiemvu

StartQuests ==
    /\ pc = "afterSession"
    /\ IF OrdinarySelected
       THEN Issue("list", userToken, 0, 0)
       ELSE Goto("afterQuests", 0)
    /\ batch' = NoBatch
    /\ out' = NoOut
    /\ UNCHANGED <<config, answers, store, locals, now, i, sess, exitCode>>

(* response.status === 200 && response.data.success *)
getQuestsListSuccess(r) == ~r.threw /\ r.status = 200 /\ r.success

ListDone ==
    /\ Returned("list")
    /\ IF getQuestsListSuccess(settled)
       THEN /\ ForNext(NewBatch("ordinary", getQuestsListFilter(settled.list)),
                       "complete", "afterQuests")
            /\ out' = Logged
       ELSE /\ batch' = [NewBatch("ordinary", <<>>) EXCEPT !.done = TRUE]
            /\ Goto("afterQuests", 0)
            /\ out' = [Logged EXCEPT !.error =
                          IF settled.threw THEN Caught ELSE "Failed to get quests list"]
    /\ UNCHANGED <<config, answers, store, locals, now, i, sess, exitCode>>

(* a completeQuest without the data === true branch *)
completeQuestNoClaim(r) ==
    IF r.threw THEN "failure"
    ELSE IF r.status = 200 \/ r.status = 201
         THEN IF r.success THEN "success" ELSE "undefined"
         ELSE "failure"

(* completeQuest: what it returns, or the claim it makes itself.           *)
(*   "success":   { success: true, data }                                  *)
(*   "failure":   { success: false, error }                                *)
(*   "claim":     success false, data === true: claimQuest is called       *)
(*   "undefined": no return statement is reached                           *)
completeQuest(r) ==
    IF r.threw THEN "failure"
    ELSE IF r.status = 200 \/ r.status = 201
         THEN IF r.success THEN "success"
              ELSE IF r.data = "true" THEN "claim" ELSE "undefined"
         ELSE "failure"

(* processQuests reads completeResult.success: a TypeError on undefined *)
ReadSuccessThrows(result) == result = "undefined"

CompleteDone ==
    /\ Returned("complete")
    /\ LET b      == [batch EXCEPT !.qs[batch.idx].resp = settled]
           result == completeQuest(settled)
       IN  CASE result = "claim" ->
                  IssueClaim(b, "claimInner") /\ out' = Logged
             [] result # "claim" /\ ReadSuccessThrows(result) ->
                  Abort(b, "afterQuests") /\ out' = [Logged EXCEPT !.error = "TypeError"]
             [] result = "success" ->
                  IssueClaim(b, "claim") /\ out' = Logged
             [] OTHER ->
                  /\ ForNext(b, "complete", "afterQuests")
                  /\ out' = [Logged EXCEPT !.error =
                                IF settled.threw THEN Caught
                                ELSE "Unexpected response status"]
    /\ UNCHANGED <<config, answers, store, locals, now, i, sess, exitCode>>

(* a completeQuest that returns { success: true } after its own claim, so *)
(* that processQuests claims the quest as well                             *)
ClaimInnerDoneThenClaims ==
    /\ Returned("claimInner")
    /\ IssueClaim(batch, "claim")
    /\ out' = Logged
    /\ UNCHANGED <<config, answers, store, locals, now, i, sess, exitCode>>

(* the claim made inside completeQuest has returned; completeQuest then    *)
(* returns undefined to processQuests                                      *)
ClaimInnerDone ==
    /\ Returned("claimInner")
    /\ IF ReadSuccessThrows("undefined")
       THEN Abort(batch, "afterQuests") /\ out' = [Logged EXCEPT !.error = "TypeError"]
       ELSE ForNext(batch, "complete", "afterQuests") /\ out' = Logged
    /\ UNCHANGED <<config, answers, store, locals, now, i, sess, exitCode>>

(* claimQuest: if (response) ... { success: true } *)
claimQuestSuccess(r) == ~r.threw

ClaimDone ==
    /\ Returned("claim")
    /\ IF claimQuestSuccess(settled)
       THEN /\ Goto("questPause", questDelay)
            /\ out' = Logged
            /\ batch' = batch
       ELSE /\ ForNext(batch, "complete", "afterQuests")
            /\ out' = [Logged EXCEPT !.error = Caught]
    /\ UNCHANGED <<config, answers, store, locals, now, i, sess, exitCode>>

QuestPause ==
    /\ pc = "questPause"
    /\ ForNext(batch, "complete", "afterQuests")
    /\ out' = NoOut
    /\ UNCHANGED <<config, answers, store, locals, now, i, sess, exitCode>>

(***************************************************************************)
(* Quest engine, seasonal path: processChristmasQuests.                    *)
(***************************************************************************)
(* if (lamChristmas) *)
ChristmasSelected == lamChristmas

StartChristmas ==
    /\ pc = "afterQuests"
    /\ IF ChristmasSelected
       THEN Issue("xlist", userToken, 0, 0)
       ELSE Goto("afterChristmas", 0)
    /\ batch' = NoBatch
    /\ out' = NoOut
    /\ UNCHANGED <<config, answers, store, locals, now, i, sess, exitCode>>

ChristmasListDone ==
    /\ Returned("xlist")
    /\ IF getQuestsListSuccess(settled)
       THEN /\ ForNext(NewBatch("seasonal", getChristmasQuestsFilter(settled.list)),
                       "xcomplete", "afterChristmas")
            /\ out' = Logged
       ELSE /\ batch' = [NewBatch("seasonal", <<>>) EXCEPT !.done = TRUE]
            /\ Goto("afterChristmas", 0)
            /\ out' = [Logged EXCEPT !.error =
                          IF settled.threw THEN Caught
                          ELSE "Failed to get Christmas quests list"]
    /\ UNCHANGED <<config, answers, store, locals, now, i, sess, exitCode>>

(* a seasonal loop that claims after any response *)
ChristmasClaimsAlways(r) == TRUE

(* completeResult.status === 200 || completeResult.status === 201 *)
ChristmasClaims(r) == r.status = 200 \/ r.status = 201

ChristmasCompleteDone ==
    /\ Returned("xcomplete")
    /\ LET b == [batch EXCEPT !.qs[batch.idx].resp = settled]
       IN  IF settled.threw
           THEN Abort(b, "afterChristmas") /\ out' = [Logged EXCEPT !.error = Caught]
           ELSE IF ChristmasClaims(settled)
                THEN IssueClaim(b, "xclaim") /\ out' = Logged
                ELSE /\ batch' = b
                     /\ Goto("christmasPause", christmasDelay)
                     /\ out' = Logged
    /\ UNCHANGED <<config, answers, store, locals, now, i, sess, exitCode>>

ChristmasClaimDone ==
    /\ Returned("xclaim")
    /\ IF settled.threw
       THEN Abort(batch, "afterChristmas") /\ out' = [Logged EXCEPT !.error = Caught]
       ELSE /\ batch' = batch
            /\ Goto("christmasPause", christmasDelay)
            /\ out' = Logged
    /\ UNCHANGED <<config, answers, store, locals, now, i, sess, exitCode>>

ChristmasPause ==
    /\ pc = "christmasPause"
    /\ ForNext(batch, "xcomplete", "afterChristmas")
    /\ out' = NoOut
    /\ UNCHANGED <<config, answers, store, locals, now, i, sess, exitCode>>

(***************************************************************************)
(* End of the loop body, and the countdown between passes.                 *)
(***************************************************************************)
EndAccount ==
    /\ pc = "afterChristmas"
    /\ Goto("acctPause", accountDelay)
    /\ batch' = NoBatch
    /\ out' = NoOut
    /\ UNCHANGED <<config, answers, store, locals, now, i, sess, exitCode>>

AccountPause ==
    /\ pc = "acctPause"
    /\ LoopNext
    /\ out' = NoOut
    /\ UNCHANGED <<config, answers, store, now, sess, batch, exitCode>>

Later(t) == IF t + 1 \in Times THEN t + 1 ELSE t

Countdown ==
    /\ pc = "countdown"
    /\ now' = Later(now)
    /\ i' = 1
    /\ IF 1 <= nData
       THEN Goto("acct", 0)
       ELSE Goto("countdown", (countdownSeconds + 1) * 1000)
    /\ sess' = "none"
    /\ out' = NoOut
    /\ UNCHANGED <<config, answers, store, locals, batch, exitCode>>

Next ==
    \/ Validate
    \/ AskQuest
    \/ AskChristmas
    \/ BeginAccount
    \/ ProxyCheckOk
    \/ ProxyCheckFail
    \/ AxiosResolve
    \/ AxiosReject
    \/ MakeRequestCatch
    \/ MakeRequestRetry
    \/ AuthDone
    \/ UserDone
    \/ LinkDone
    \/ StartQuests
    \/ ListDone
    \/ CompleteDone
    \/ ClaimInnerDone
    \/ ClaimDone
    \/ QuestPause
    \/ StartChristmas
    \/ ChristmasListDone
    \/ ChristmasCompleteDone
    \/ ChristmasClaimDone
    \/ ChristmasPause
    \/ EndAccount
    \/ AccountPause
    \/ Countdown

Spec == Init /\ [][Next]_vars

(***************************************************************************)
(* The run loop under fair scheduling: every pending promise settles and   *)
(* every timer fires, so a step that can be taken is taken.  The run       *)
(* starts from files that pass validation, a writable token.json and the   *)
(* token stores of LiveStores.                                             *)
(***************************************************************************)
LiveStores ==
    {store0 \in InitStores :
        store0[1] \in {NoToken, TokPerp}}

LiveInit ==
    /\ Init
    /\ validateWalletFile
    /\ diskOk
    /\ tokenFile \in LiveStores

LiveSpec == LiveInit /\ [][Next]_vars /\ WF_vars(Next)

(***************************************************************************)
(* The session step on its own: main reads the stored token of the first   *)
(* account and evaluates !userToken || this.isExpired(userToken), for      *)
(* every token of TokenSamples and every clock value up to MaxNow.         *)
(***************************************************************************)
TokenSamples ==
    {NoToken, TokNoDot, TokExp3, TokExp4, TokExp9, TokExp0, TokExpNeg, TokPerp,
     TokObj, TokNull, TokNum, TokBad, TokEmpty, TokStar, TokDirty}

ExpiryInit ==
    /\ variant \in Variants
    /\ nData = 1
    /\ wallets = Lines(1)
    /\ proxies = IF variant = "proxy" THEN Lines(1) ELSE <<>>
    /\ tokens \in {[u \in UserIds |-> t] : t \in TokenSamples}
    /\ tokenFile = tokens
    /\ diskOk = TRUE
    /\ now \in 1 .. MaxNow
    /\ pc = "acct"
    /\ exitCode = 0
    /\ hoinhiemvu = FALSE
    /\ lamChristmas = FALSE
    /\ i = 1
    /\ userToken = NoToken
    /\ needsNewToken = FALSE
    /\ sess = "none"
    /\ req = NoReq
    /\ mr = IdleMr
    /\ settled = NoResp
    /\ timer = 0
    /\ out = NoOut
    /\ batch = NoBatch

ExpiryNext ==
    \/ BeginAccount
    \/ ProxyCheckOk
    \/ ProxyCheckFail

ExpirySpec == ExpiryInit /\ [][ExpiryNext]_vars


(***************************************************************************)
(* Properties.                                                             *)
(***************************************************************************)
InFlight == pc \in {"axios", "settled", "retryDelay"}

(* makeRequest returns or throws to its caller in the next step *)
Final == pc = "settled" /\ (settled.threw => mr.calls = 3)

CurrentUser == UserIdOf(i)

StoredValid ==
    /\ i \in 1 .. nData
    /\ tokens[CurrentUser] # NoToken
    /\ isExpired(tokens[CurrentUser], now) = "false"

(* the completion response was 200/201 with success=false and data=d *)
Refused(r, d) ==
    ~r.threw /\ r.status \in {200, 201} /\ ~r.success /\ r.data = d

(* C1: when every attempt of a makeRequest call throws, axios is called     *)
(* exactly 3 times, each failed attempt but the last is followed by one    *)
(* wait of 5000 ms and a further call with the same config, the last is    *)
(* followed by no wait, and the caller catches the error of the third call. *)
C1_ThreeAttemptsThenRethrow ==
    [][/\ (pc = "settled" /\ settled.threw) =>
             /\ mr.calls <= 3
             /\ mr.attempt = mr.calls
             /\ mr.waitMs = 5000 * (mr.calls - 1)
             /\ IF mr.calls < 3
                THEN pc' = "retryDelay" /\ timer' = 5000 /\ req' = req /\ mr' = mr
                ELSE pc' # "retryDelay" /\ out'.caught = settled.err
       /\ pc = "retryDelay" =>
             /\ pc' = "axios"
             /\ req' = req
             /\ mr'.calls = mr.calls + 1
             /\ mr'.waitMs = mr.waitMs + 5000
      ]_vars

(* three calls have failed and the caller holds the third error *)
C1_Witness ==
    /\ out.caught = ErrorAt(3)
    /\ out.error = ErrorAt(3)
    /\ sess = "authFailed"

(* C2: when processQuests has returned, a completion request has been made  *)
(* for every quest of the fetched unclaimed list.                          *)
C2_EveryQuestCompleted ==
    (batch.path = "ordinary" /\ batch.done) =>
        \A k \in DOMAIN batch.qs : batch.qs[k].compl >= 1

(* C3: when processChristmasQuests has returned, a completion request has   *)
(* been made for every quest of the filtered seasonal list.                *)
C3_EverySeasonalQuestCompleted ==
    (batch.path = "seasonal" /\ batch.done) =>
        \A k \in DOMAIN batch.qs : batch.qs[k].compl >= 1

(* C4: in the ordinary path a quest whose completion was answered 200/201   *)
(* with success=false and data=true gets a claim request for its own id,   *)
(* and one completion request only.                                        *)
C4_ClaimAfterDataTrue ==
    batch.path = "ordinary" =>
        /\ \A k \in DOMAIN batch.qs :
               Refused(batch.qs[k].resp, "true") =>
                   /\ batch.qs[k].claim >= 1
                   /\ batch.qs[k].compl = 1
                   /\ k = batch.idx
                   /\ ~batch.done =>
                          /\ InFlight
                          /\ req.kind = "claimInner"
                          /\ req.questId = batch.list[k]
        /\ (InFlight /\ req.kind = "complete") =>
               /\ req.questId = batch.list[batch.idx]
               /\ batch.qs[batch.idx].compl = 1
               /\ batch.qs[batch.idx].resp = NoResp

(* the claim request that follows a success=false, data=true answer *)
C4_Witness ==
    /\ batch.path = "ordinary"
    /\ batch.idx = 1
    /\ Refused(batch.qs[1].resp, "true")
    /\ pc = "axios"
    /\ req.kind = "claimInner"
    /\ req.questId = batch.list[1]

(* C5: in the ordinary path a quest whose completion was answered 200/201   *)
(* with success=false and data=false gets no claim request, raises no      *)
(* exception in processQuests, and the quests after it are processed.      *)
C5_SkipWithoutError ==
    batch.path = "ordinary" =>
        \A k \in DOMAIN batch.qs :
            Refused(batch.qs[k].resp, "false") =>
                /\ batch.qs[k].claim = 0
                /\ ~batch.exception
                /\ batch.done =>
                       \A j \in DOMAIN batch.qs : j > k => batch.qs[j].compl >= 1

(* C6: in the seasonal path a quest whose completion was answered with      *)
(* success=false and data=false gets no claim request.                     *)
C6_SeasonalSkip ==
    batch.path = "seasonal" =>
        \A k \in DOMAIN batch.qs :
            (~batch.qs[k].resp.threw /\ batch.qs[k].resp.status # 0
               /\ ~batch.qs[k].resp.success /\ batch.qs[k].resp.data = "false") =>
                batch.qs[k].claim = 0

(* the login of account i has failed: makeRequest threw after its last      *)
(* attempt, or the status is not 201, or the success flag is false         *)
LoginFails ==
    /\ Final
    /\ req.kind = "auth"
    /\ settled.threw \/ settled.status # 201 \/ ~settled.success

(* C7: when the login of an account fails, the loop moves to the next       *)
(* account (or to the countdown after the last one) without making a       *)
(* request; requests are only ever made for the account the loop is at,    *)
(* and the loop comes back to an account only after the countdown.         *)
C7_LoginFailureSkipsAccount ==
    [][/\ LoginFails =>
             /\ i' = i + 1
             /\ pc' = IF i + 1 <= nData THEN "acct" ELSE "countdown"
             /\ req' = NoReq
             /\ sess' = "authFailed"
       /\ sess = "authFailed" => ~InFlight /\ pc \in {"acct", "countdown"}
       /\ InFlight => req.acct = i
       /\ i' # i => i' = i + 1 \/ pc \in {"ask2", "countdown"}
      ]_vars

(* the login of the first account has failed and the loop is at the second *)
C7_Witness ==
    /\ sess = "authFailed"
    /\ pc = "acct"
    /\ i = 2
    /\ out.error = "Authentication failed"

(* C8: a bearer-authenticated request is in flight for an account only if   *)
(* a login has succeeded in this pass or the stored token is present and   *)
(* not expired, and it carries the token the store holds for the account.  *)
C8_NoBearerBeforeLogin ==
    (InFlight /\ req.kind \in BearerKinds) =>
        /\ sess = "authOk" \/ StoredValid
        /\ needsNewToken => sess = "authOk"
        /\ req.token = tokens[CurrentUser]
        /\ req.token # NoToken

(* a quest request made with the token of a login of this pass *)
C8_Witness ==
    /\ pc = "axios"
    /\ req.kind \in QuestKinds
    /\ needsNewToken
    /\ sess = "authOk"
    /\ req.token = tokens[CurrentUser]
    /\ ~diskOk
    /\ tokenFile[CurrentUser] = TokExp3

(* main is about to read the stored token of account i *)
SessionPoint ==
    \/ pc = "acct" /\ variant = "plain"
    \/ pc = "proxyCheck"

(* C9: when the session step finds a stored token that isExpired reports    *)
(* as not expired, it makes a GET /user request with that token; a login   *)
(* request is in flight only for an account whose stored token is absent   *)
(* or expired; a GET /user that fails is followed by no login request.     *)
C9_ValidTokenNoLogin ==
    [][/\ (SessionPoint /\ StoredValid /\ pc' # pc /\ sess' # "proxyFailed") =>
             /\ pc' = "axios"
             /\ req'.kind = "user"
             /\ req'.token = tokens[CurrentUser]
             /\ req'.acct = i
       /\ (InFlight /\ req.kind = "auth") => ~StoredValid
       /\ (Final /\ req.kind = "user"
             /\ (settled.threw \/ settled.status # 200 \/ ~settled.success)) =>
             /\ i' = i
             /\ req'.kind # "auth"
             /\ tokens' = tokens
      ]_vars

(* GET /user was answered with success=false and the pass goes on *)
C9_Witness ==
    /\ pc = "afterSession"
    /\ ~needsNewToken
    /\ userToken = tokens[CurrentUser]
    /\ out.error = "Failed to get user info"

(* the login of account i is answered 201 with success=true *)
LoginSucceeds ==
    /\ pc = "settled"
    /\ req.kind = "auth"
    /\ ~settled.threw /\ settled.status = 201 /\ settled.success

(* C10 as stated: after a successful login of an account without a stored   *)
(* token, the store in memory and token.json both map the account's id to  *)
(* the token of the response, and the balance logged is the response's.    *)
C10_TokenSavedAndPersisted ==
    [][(LoginSucceeds /\ tokens[CurrentUser] = NoToken) =>
           /\ tokens'[CurrentUser] = settled.token
           /\ tokenFile'[CurrentUser] = settled.token
           /\ out'.balance = settled.balance
      ]_vars

(* C10 amended: the store in memory maps the account's id to the token of   *)
(* the response and leaves the other entries alone, token.json holds the   *)
(* same mapping when the write succeeds and is left as it was when the     *)
(* write fails, and the balance logged is the response's.                  *)
C10_TokenSavedInMemory ==
    [][(LoginSucceeds /\ tokens[CurrentUser] = NoToken) =>
           /\ tokens'[CurrentUser] = settled.token
           /\ \A u \in UserIds \ {CurrentUser} : tokens'[u] = tokens[u]
           /\ tokenFile' = IF diskOk THEN tokens' ELSE tokenFile
           /\ out'.balance = settled.balance
           /\ userToken' = settled.token
      ]_vars

(* first pass, first account, no token stored for it (the store that maps  *)
(* the second user to TokExp4 has none for the first): the login succeeded *)
C10_Witness ==
    /\ now = 4
    /\ i = 1
    /\ nData >= 1
    /\ tokens[2] = TokExp4
    /\ sess = "authOk"
    /\ diskOk
    /\ tokens[1] = TokExp9
    /\ tokenFile[1] = TokExp9
    /\ out.balance = 7

C12_OnlyLoginChangesTokens ==
    [][(tokens' # tokens \/ tokenFile' # tokenFile) =>
           /\ LoginSucceeds
           /\ tokens'[CurrentUser] = settled.token
           /\ \A u \in UserIds \ {CurrentUser} :
                  tokens'[u] = tokens[u] /\ tokenFile'[u] = tokenFile[u]
      ]_vars

(* first pass: the second account has a new token, its quest batches have  *)
(* run, and the token of the first account is the one found at startup     *)
C12_Witness ==
    /\ now = 4
    /\ i = 2
    /\ sess = "authOk"
    /\ tokens[1] = TokExp4
    /\ tokens[2] = TokExp9
    /\ pc = "afterChristmas"
    /\ batch.path = "seasonal"
    /\ batch.idx >= 1

(* the wallet-link request of account i has failed *)
LinkFails ==
    /\ Final
    /\ req.kind = "link"
    /\ settled.threw \/ settled.status # 201 \/ ~settled.success

(* C13: a failed wallet-link request is logged and main goes on to the      *)
(* quest steps of the same account: the ordinary list request is made if   *)
(* the first answer was yes, then the seasonal list request if the second  *)
(* was yes, both with the token the store holds for the account.           *)
C13_LinkFailureDoesNotBlock ==
    [][/\ LinkFails =>
             /\ pc' = "afterSession"
             /\ i' = i
             /\ userToken' = userToken
             /\ tokens' = tokens
             /\ out'.error # ""
       /\ pc = "afterSession" =>
             /\ i' = i
             /\ userToken = tokens[CurrentUser]
             /\ IF hoinhiemvu
                THEN /\ pc' = "axios"
                     /\ req'.kind = "list"
                     /\ req'.token = userToken
                     /\ req'.acct = i
                ELSE pc' = "afterQuests"
       /\ pc = "afterQuests" =>
             /\ i' = i
             /\ IF lamChristmas
                THEN /\ pc' = "axios"
                     /\ req'.kind = "xlist"
                     /\ req'.token = tokens[CurrentUser]
                     /\ req'.acct = i
                ELSE pc' = "afterChristmas"
      ]_vars

(* the link request was answered with success=false and main is at the     *)
(* quest steps, both selected                                              *)
C13_Witness ==
    /\ pc = "afterSession"
    /\ out.error = "Failed to link wallet"
    /\ hoinhiemvu
    /\ lamChristmas

(* the login or the GET /user of account i has succeeded *)
SessionSucceeds ==
    /\ pc = "settled"
    /\ ~settled.threw
    /\ settled.success
    /\ \/ req.kind = "auth" /\ settled.status = 201
       \/ req.kind = "user" /\ settled.status = 200

(* C14: when the session step succeeds and reports no wallet, one           *)
(* wallet-link call is made with the account's token and the wallet at the *)
(* account's index; when it reports a wallet none is made; a link call is  *)
(* made in no other place, and the quest requests start after it returned. *)
C14_LinkOnceWhenUnlinked ==
    [][/\ (SessionSucceeds /\ ~settled.wallet) =>
             /\ pc' = "axios"
             /\ req'.kind = "link"
             /\ req'.token = tokens'[CurrentUser]
             /\ req'.wallet = wallets[i]
             /\ req'.acct = i
             /\ mr'.calls = 1
       /\ (SessionSucceeds /\ settled.wallet) =>
             /\ pc' = "afterSession"
             /\ req' = NoReq
       /\ (req'.kind = "link" /\ req.kind # "link") =>
             SessionSucceeds /\ ~settled.wallet
       /\ req.kind = "link" =>
             \/ req' = req
             \/ pc' = "afterSession" /\ req' = NoReq
       /\ req'.kind \in {"list", "xlist"} =>
             \/ req.kind = req'.kind
             \/ pc \in {"afterSession", "afterQuests"} /\ req = NoReq
      ]_vars

(* the link request of the second account, made with its stored token and  *)
(* its own wallet after GET /user reported no wallet                       *)
C14_Witness ==
    /\ pc = "axios"
    /\ req.kind = "link"
    /\ i = 2
    /\ ~needsNewToken
    /\ req.token = tokens[2]
    /\ req.wallet = wallets[2]
    /\ req.wallet # wallets[1]

(* C15: a request in flight belongs to the account the loop is at; the      *)
(* index changes only when no request is pending, by one within a pass and *)
(* back to the first account after the countdown; a loop body is entered   *)
(* only with a new index; while makeRequest retries the index stays.       *)
C15_AccountsSequential ==
    [][/\ InFlight => req.acct = i /\ i \in 1 .. nData
       /\ (InFlight /\ ~Final) => i' = i /\ req' = req
       /\ i' # i =>
             /\ pc' \in {"acct", "countdown"}
             /\ req' = NoReq
             /\ \/ pc \in {"ask2", "countdown"} /\ i' = 1
                \/ /\ i' = i + 1
                   /\ \/ Final
                      \/ pc \in {"proxyCheck", "acctPause"}
       /\ (pc' = "acct" /\ pc # "acct") =>
             \/ i' = i + 1
             \/ pc \in {"ask2", "countdown"} /\ i' = 1
      ]_vars

(* second pass, second account: the third attempt of a request is pending  *)
C15_Witness ==
    /\ now = 5
    /\ i = 2
    /\ pc = "axios"
    /\ req.acct = 2
    /\ mr.calls = 3

(* the per-account lists do not all have the length of the init-data list *)
ListsMismatch ==
    \/ Len(wallets) # nData
    \/ variant = "proxy" /\ Len(proxies) # nData

(* C17: when the lists differ in length the process exits with code 1 and   *)
(* no prompt is answered, no request made and no account visited.          *)
C17_MismatchExitsBeforeRun ==
    ListsMismatch =>
        /\ pc \in {"start", "exit"}
        /\ pc = "exit" => exitCode = 1
        /\ i = 0
        /\ req = NoReq
        /\ mr = IdleMr
        /\ ~hoinhiemvu /\ ~lamChristmas
        /\ batch = NoBatch

(* proxy variant: the wallet list fits, the proxy list does not, exit 1 *)
C17_Witness ==
    /\ variant = "proxy"
    /\ Len(wallets) = nData
    /\ Len(proxies) # nData
    /\ pc = "exit"
    /\ exitCode = 1

(* C16, the part a finite run refutes: once the loop has reached its first  *)
(* account the process never exits, whatever tokens are stored and         *)
(* whatever the service answers.                                           *)
C16_LoopNeverExits == i >= 1 => pc # "exit" /\ exitCode = 0

(* the session step has evaluated the stored token of account i *)
SessionEvaluated == pc \in {"axios", "exit"}

(* the stored token the session step has read *)
StoredToken == IF i \in UserIds THEN tokens[CurrentUser] ELSE NoToken

(* what the middle segment of a token decodes and parses to *)
PayloadOf(token) == JsonParse(Base64Decode(token[2]))

(* the middle segment is a JSON object with an exp field *)
HasExpClaim(token) ==
    /\ Len(token) >= 2
    /\ PayloadOf(token).kind = "object"
    /\ PayloadOf(token).hasExp

(* C18: for every token with an exp claim, isExpired returns true when exp  *)
(* is before the current time and false when it is after it.               *)
C18_ExpiredIffPast ==
    (SessionEvaluated /\ HasExpClaim(StoredToken)) =>
        /\ PayloadOf(StoredToken).exp < now =>
               isExpired(StoredToken, now) = "true" /\ needsNewToken
        /\ PayloadOf(StoredToken).exp > now =>
               isExpired(StoredToken, now) = "false" /\ ~needsNewToken

(* the middle segment is a JSON object without an exp field *)
NoExpObject(token) ==
    /\ Len(token) >= 2
    /\ PayloadOf(token).kind = "object"
    /\ ~PayloadOf(token).hasExp

(* C19: for every token whose middle segment is a JSON object without exp,  *)
(* isExpired returns false at every time, and the session step makes the   *)
(* GET /user request with the stored token, not a login.                   *)
C19_NoExpNeverExpires ==
    NoExpObject(StoredToken) =>
        /\ isExpired(StoredToken, now) = "false"
        /\ SessionEvaluated =>
               /\ pc = "axios"
               /\ ~needsNewToken
               /\ req.kind = "user"
               /\ req.token = StoredToken
               /\ userToken = StoredToken

(* the session step has taken the stored token {"sub":1} late in the day *)
C19_Witness ==
    /\ StoredToken = TokPerp
    /\ now = MaxNow
    /\ pc = "axios"
    /\ req.kind = "user"
    /\ req.token = TokPerp

(* middle segments that are base64 text *)
Base64Texts ==
    {"eyJleHAiOjN9", "eyJleHAiOjR9", "eyJleHAiOjl9", "eyJleHAiOjB9",
     "eyJzdWIiOjF9", "bnVsbA==", "MTIz", "bm90IGpzb24=", "",
     "eyJleHAiOi0xfQ==", "e30="}

(* a token whose middle segment cannot be base64-decoded, or does not       *)
(* decode to JSON                                                           *)
Malformed(token) ==
    /\ token # NoToken
    /\ \/ Len(token) < 2
       \/ token[2] \notin Base64Texts
       \/ PayloadOf(token).kind = "error"

(* C20: for every malformed token isExpired returns true, so the session    *)
(* step logs in again; such a token is never used as a valid one.          *)
C20_MalformedIsExpired ==
    (SessionEvaluated /\ Malformed(StoredToken)) =>
        /\ isExpired(StoredToken, now) = "true"
        /\ needsNewToken
        /\ pc = "axios"
        /\ req.kind = "auth"

(* the number a quest code ends with: the value of its last run of digits *)
NumericSuffix(code) ==
    LET n     == Len(code)
        start == CHOOSE j \in 1 .. n + 1 :
                     /\ \A m \in j .. n : IsDigit(code[m])
                     /\ j = 1 \/ ~IsDigit(code[j - 1])
    IN  IF start = n + 1
        THEN [nan |-> TRUE, val |-> 0]
        ELSE [nan |-> FALSE, val |-> DigitsValue(SubSeq(code, start, n), 0)]

(* the seasonal quests C21 says are kept *)
SeasonalWanted(id) ==
    /\ StartsWith(Catalog[id].code, Christmas)
    /\ ~NumericSuffix(Catalog[id].code).nan
    /\ NumericSuffix(Catalog[id].code).val <= 6
    /\ ~Catalog[id].claimed
    /\ Catalog[id].status # "finished"

(* C21: the list processChristmasQuests works on holds exactly the quests   *)
(* of the fetched list whose code starts with "christmas", whose numeric   *)
(* suffix is at most 6, that are unclaimed and not finished: christmas_007 *)
(* is left out, an unclaimed active christmas_003 is kept.                 *)
C21_SeasonalFilter ==
    [][(Final /\ req.kind = "xlist" /\ ~settled.threw /\ settled.status = 200
          /\ settled.success) =>
           batch'.list = SelectSeq(settled.list, SeasonalWanted)
      ]_vars

(* C22: in the proxy variant every request in flight for an account is      *)
(* routed through the proxy of that account.                               *)
C22_EveryRequestProxied ==
    (variant = "proxy" /\ InFlight) => req.proxy = proxies[i]

OrdinaryKinds == {"list", "complete", "claimInner", "claim"}
SeasonalKinds == {"xlist", "xcomplete", "xclaim"}

(* C23: the two answers are fixed once the loop has started; ordinary quest *)
(* requests are in flight only if the first answer was yes, seasonal ones  *)
(* only if the second was yes; the seasonal requests of an account start   *)
(* only after processQuests has returned and no ordinary request follows   *)
(* them; with both answers no, no quest request is ever in flight.         *)
C23_QuestsGatedByAnswers ==
    [][/\ (InFlight /\ req.kind \in OrdinaryKinds) => hoinhiemvu
       /\ (InFlight /\ req.kind \in SeasonalKinds) => lamChristmas
       /\ (~hoinhiemvu /\ ~lamChristmas) => req.kind \notin QuestKinds
       /\ pc # "ask1" => hoinhiemvu' = hoinhiemvu
       /\ pc # "ask2" => lamChristmas' = lamChristmas
       /\ i >= 1 => hoinhiemvu' = hoinhiemvu /\ lamChristmas' = lamChristmas
       /\ req'.kind \in OrdinaryKinds =>
             \/ req.kind \in OrdinaryKinds
             \/ pc \in {"afterSession", "questPause"} /\ req = NoReq
       /\ req'.kind \in SeasonalKinds =>
             \/ req.kind \in SeasonalKinds
             \/ pc \in {"afterQuests", "christmasPause"} /\ req = NoReq
       /\ req'.kind = "xlist" /\ req.kind # "xlist" =>
             pc = "afterQuests" /\ (hoinhiemvu => batch.path = "ordinary" /\ batch.done)
      ]_vars

(* second pass, both answers yes: the seasonal list request of an account  *)
(* follows its finished ordinary batch                                     *)
C23_Witness ==
    /\ now = 5
    /\ hoinhiemvu
    /\ lamChristmas
    /\ pc = "axios"
    /\ req.kind = "xlist"

(* the completion request was answered with HTTP 200 or 201 *)
Answered2xx(r) == ~r.threw /\ r.status \in {200, 201}

ClaimKinds == {"claim", "claimInner", "xclaim"}

(* C25: in both paths a quest has a claim request only if its completion    *)
(* request of this batch was answered 200/201; a quest whose completion    *)
(* request failed after all retries has none; while the completion request *)
(* of a quest is pending the quest has no claim request.                   *)
C25_ClaimAfterCompletion ==
    batch.path # "none" =>
        /\ \A k \in DOMAIN batch.qs :
               /\ batch.qs[k].claim >= 1 =>
                      /\ Answered2xx(batch.qs[k].resp)
                      /\ batch.qs[k].compl >= 1
                      /\ k <= batch.idx
               /\ batch.qs[k].resp.threw => batch.qs[k].claim = 0
               /\ batch.qs[k].compl = 0 => batch.qs[k].claim = 0
        /\ (InFlight /\ req.kind \in ClaimKinds) =>
               /\ req.questId = batch.list[batch.idx]
               /\ Answered2xx(batch.qs[batch.idx].resp)
        /\ (InFlight /\ req.kind \in {"complete", "xcomplete"}) =>
               /\ batch.qs[batch.idx].claim = 0
               /\ batch.qs[batch.idx].resp = NoResp

(* seasonal path: the claim request of the second quest, whose completion  *)
(* was answered 201                                                        *)
C25_Witness ==
    /\ batch.path = "seasonal"
    /\ batch.idx = 2
    /\ pc = "axios"
    /\ req.kind = "xclaim"
    /\ req.questId = batch.list[2]
    /\ batch.qs[2].resp.status = 201

(* C26: the completion request of every quest but the first of a batch is   *)
(* issued at the end of the pause (2 s ordinary, 3 s seasonal) that        *)
(* follows the previous quest, whatever that quest's outcome.              *)
C26_PauseBetweenQuests ==
    [][(pc' = "axios" /\ req'.kind \in {"complete", "xcomplete"}
          /\ batch'.idx > 1 /\ batch'.idx # batch.idx) =>
           IF req'.kind = "complete"
           THEN pc = "questPause" /\ timer = 2000
           ELSE pc = "christmasPause" /\ timer = 3000
      ]_vars

(* C28: in the ordinary path no quest has more than one claim request in a  *)
(* batch; after the claim completeQuest makes for success=false, data=true *)
(* processQuests makes none.                                               *)
C28_OneClaimPerQuest ==
    batch.path = "ordinary" =>
        \A k \in DOMAIN batch.qs :
            /\ batch.qs[k].claim <= 1
            /\ batch.qs[k].compl <= 1
            /\ (Refused(batch.qs[k].resp, "true") /\ batch.done) =>
                   batch.qs[k].claim = 1

(* processQuests has returned after the claim completeQuest made for the   *)
(* second quest of the batch                                               *)
C28_Witness ==
    /\ batch.path = "ordinary"
    /\ batch.done
    /\ pc = "afterQuests"
    /\ batch.idx = 2
    /\ Refused(batch.qs[2].resp, "true")
    /\ batch.qs[2].claim = 1
    /\ batch.qs[1].claim = 1

(* C29: a failed login leaves tokens and token.json as they were; an entry  *)
(* that needs a new token keeps needing one until a login replaces it; and *)
(* the session step of an account whose entry needs a new token makes the  *)
(* login request.                                                          *)
C29_FailedLoginKeepsStore ==
    [][/\ LoginFails => tokens' = tokens /\ tokenFile' = tokenFile
       /\ \A u \in UserIds :
              (NeedsNewToken(tokens[u], now) = "true" /\ tokens'[u] = tokens[u]) =>
                  NeedsNewToken(tokens'[u], now') = "true"
       /\ (SessionPoint /\ i \in 1 .. nData
             /\ NeedsNewToken(tokens[CurrentUser], now) = "true"
             /\ pc' # pc /\ sess' # "proxyFailed") =>
              /\ pc' = "axios"
              /\ req'.kind = "auth"
              /\ req'.acct = i
      ]_vars

(* paws.js, second pass: the first account still has no token, so its      *)
(* login of the first pass failed, and the login request is made again     *)
C29_Witness ==
    /\ variant = "plain"
    /\ now = 5
    /\ i = 1
    /\ tokens[1] = NoToken
    /\ tokenFile[1] = NoToken
    /\ pc = "axios"
    /\ req.kind = "auth"

(* the GET /user request of account i has failed *)
UserFails ==
    /\ Final
    /\ req.kind = "user"
    /\ settled.threw \/ settled.status # 200 \/ ~settled.success

(* C30: after a failed GET /user main is at the quest steps of the same     *)
(* account with the stored token: no link and no login request is made,    *)
(* and the list request of each selected path carries the stored token.    *)
C30_UserInfoFailureGoesOn ==
    [][/\ UserFails =>
             /\ pc' = "afterSession"
             /\ req' = NoReq
             /\ i' = i
             /\ userToken' = userToken
             /\ userToken = tokens[CurrentUser]
             /\ tokens' = tokens
             /\ sess' # "authFailed"
       /\ (pc = "afterSession" /\ ~needsNewToken) =>
             IF hoinhiemvu
             THEN pc' = "axios" /\ req'.kind = "list" /\ req'.token = userToken
             ELSE pc' = "afterQuests" /\ req' = NoReq
       /\ (pc = "afterQuests" /\ ~needsNewToken) =>
             IF lamChristmas
             THEN pc' = "axios" /\ req'.kind = "xlist" /\ req'.token = userToken
             ELSE pc' = "afterChristmas" /\ req' = NoReq
       /\ (InFlight /\ req.kind \in QuestKinds /\ ~needsNewToken) =>
             /\ req.token = userToken
             /\ userToken = tokens[CurrentUser]
             /\ req'.kind \notin {"auth", "link"}
      ]_vars

(* GET /user with the stored token threw three times and main is at the    *)
(* quest steps with the ordinary quests selected                           *)
C30_Witness ==
    /\ pc = "afterSession"
    /\ ~needsNewToken
    /\ out.caught = ErrorAt(3)
    /\ hoinhiemvu
    /\ userToken = tokens[CurrentUser]

(* the statuses a caller takes for success, by request *)
OkStatuses(kind) ==
    CASE kind \in {"auth", "link"} -> {201}
      [] kind \in {"user", "list", "xlist"} -> {200}
      [] OTHER -> {200, 201}

(* a request of account i has failed: makeRequest threw after its last     *)
(* attempt, or the response is not a success                               *)
RequestFails ==
    /\ Final
    /\ \/ settled.threw
       \/ ~settled.success
       \/ settled.status \notin OkStatuses(req.kind)

(* C24: the process never exits as the step that follows a request or a    *)
(* pause, and after every failed request of the account at index k the     *)
(* loop reaches index k + 1: the next account, or the countdown after the  *)
(* last one.                                                               *)
C24_FailuresDoNotStopLoop ==
    /\ [][(pc' = "exit" /\ pc # "exit") => pc \in {"start", "acct", "proxyCheck"}]_vars
    /\ \A k \in 1 .. MaxAccounts :
           [](( RequestFails /\ i = k) =>
                 <>(i = k + 1 /\ pc = IF k < nData THEN "acct" ELSE "countdown"))

(* the login of the last account has failed and the loop is at the         *)
(* countdown                                                               *)
C24_Witness ==
    /\ nData = MaxAccounts
    /\ i = nData + 1
    /\ pc = "countdown"
    /\ sess = "authFailed"
    /\ out.caught = ErrorAt(3)


(* a stored token without '.': split('.') gives one segment *)
Dotless(token) == Len(token) = 1

(* C31: when the session step of an account reads a stored token without    *)
(* '.', the process exits with code 1 in that step: no request is issued   *)
(* for the account, the token store stays as it was, and no step follows   *)
(* the exit, so no later account is visited; the loop is left in no other  *)
(* way.                                                                    *)
C31_DotlessTokenExits ==
    [][/\ ( /\ Dotless(StoredToken)
            /\ \/ variant = "plain" /\ pc = "acct"
               \/ pc = "proxyCheck" /\ sess' # "proxyFailed" ) =>
             /\ pc' = "exit"
             /\ exitCode' = 1
             /\ req' = NoReq
             /\ batch' = NoBatch
             /\ i' = i
             /\ tokens' = tokens
             /\ tokenFile' = tokenFile
       /\ (pc' = "exit" /\ i >= 1) => Dotless(StoredToken)
       /\ pc # "exit"
      ]_vars

(* the first account was served, the second holds a dotless token: exit 1 *)
C31_Witness ==
    /\ pc = "exit"
    /\ exitCode = 1
    /\ i = 2
    /\ Dotless(StoredToken)
    /\ req = NoReq


(* C32: a makeRequest call makes between 1 and 3 attempts, with one wait of *)
(* 5000 ms before each attempt but the first; when an attempt resolves,    *)
(* the response goes to the caller in the next step: no wait and no        *)
(* further attempt of that call follows, and the caller sees no error; a   *)
(* wait starts only after an attempt that threw, and a further attempt     *)
(* only after a wait.                                                      *)
C32_StopsAtFirstSuccess ==
    [][/\ InFlight =>
             /\ mr.calls \in 1 .. maxRetries
             /\ mr.attempt = mr.calls
             /\ mr.waitMs = retryDelay * (mr.calls - 1)
       /\ (pc = "settled" /\ ~settled.threw) =>
             /\ pc' # "retryDelay"
             /\ pc' = "axios" => mr' = [attempt |-> 1, calls |-> 1, waitMs |-> 0]
             /\ out'.caught = ""
       /\ pc' = "retryDelay" => pc = "settled" /\ settled.threw
       /\ (mr.calls >= 1 /\ mr'.calls > mr.calls) =>
             /\ pc = "retryDelay"
             /\ mr'.calls = mr.calls + 1
      ]_vars

(* the first attempt threw, the second has resolved after one wait *)
C32_Witness ==
    /\ pc = "settled"
    /\ ~settled.threw
    /\ mr.calls = 2
    /\ mr.waitMs = retryDelay
    /\ req.kind = "complete"


(* C33: in the proxy variant, the step in which the proxy check of an       *)
(* account fails moves the loop to the next account (to the countdown      *)
(* after the last one) without a request and without touching the token    *)
(* store; until the loop body of another account starts no request is      *)
(* pending; every loop body starts with the proxy check, and every request *)
(* ever pending belongs to the account the loop is at, whose proxy check   *)
(* has not failed.                                                         *)
C33_ProxyFailureSkipsAccount ==
    [][/\ (pc = "proxyCheck" /\ sess' = "proxyFailed") =>
             /\ variant = "proxy"
             /\ i' = i + 1
             /\ pc' = IF i + 1 <= nData THEN "acct" ELSE "countdown"
             /\ req' = NoReq
             /\ tokens' = tokens
             /\ tokenFile' = tokenFile
             /\ batch' = NoBatch
       /\ sess = "proxyFailed" => ~InFlight /\ pc \in {"acct", "countdown"}
       /\ InFlight => req.acct = i /\ sess # "proxyFailed"
       /\ (variant = "proxy" /\ pc = "acct") => pc' = "proxyCheck" /\ req' = NoReq
      ]_vars

(* the proxy check of the first account has failed: the loop is at the    *)
(* second account and the token store is the one read at startup          *)
C33_Witness ==
    /\ variant = "proxy"
    /\ sess = "proxyFailed"
    /\ out.error = "proxy"
    /\ pc = "acct"
    /\ i = 2
    /\ req = NoReq
    /\ tokens = tokenFile

====
